---- MODULE Spec2Model ----
(***************************************************************************)
(* The OPFS object-store adapter of proto-query-engine: the storage facade *)
(* (opfs_store.rs), the bridged browser operations and the CSV ingestion   *)
(* (web_fs_utils.rs) and the exported entry points (lib.rs).               *)
(*                                                                         *)
(* The browser runs everything on one thread.  Every promise the code      *)
(* awaits is one step of the model: the environment settles it (fulfilled, *)
(* rejected, or fulfilled with a value of another type) and the code runs  *)
(* up to its next await.  A Rust panic on wasm32 traps: the task that      *)
(* panicked never runs again and whoever awaits it is never resumed.       *)
(***************************************************************************)
EXTENDS Integers, Sequences, FiniteSets, TLC

\* ------------------------------------------------------------------ bounds
\* longest initial object, in bytes
MaxLen == 2
\* largest high word (bits 32..63) of a requested range bound
MaxHi == 1
\* most rows of an ingested CSV body
MaxRows == 2
\* most operations issued in one behaviour
MaxOps == 2
\* most operations issued in one behaviour of the smaller specifications
MaxStoreOps == 3

\* ------------------------------------------------------------- 64-bit values
\* GetRange carries u64 bounds; usize has 32 bits on wasm32.  A u64 is kept as
\* its two 32-bit words: the value is hi * 2^32 + lo.
U64(h, l) == [hi |-> h, lo |-> l]

\* `n as u64` of a usize
FromUsize(n) == U64(0, n)

\* `v as usize`: the low 32 bits
AsUsize(v) == v.lo

Lt(a, b) == a.hi < b.hi \/ (a.hi = b.hi /\ a.lo < b.lo)
Ge(a, b) == ~Lt(a, b)
Gt(a, b) == Lt(b, a)

\* u64::saturating_sub, for a minuend below 2^32
SaturatingSub(len, n) ==
    IF Ge(n, len) THEN U64(0, 0) ELSE U64(0, len.lo - n.lo)

\* ------------------------------------------------------------------ values
None == <<>>
Some(x) == <<x>>

\* the bounds a caller may put in a range: small ones around the object's
\* length, and values past 2^32
RangeParams ==
    {U64(0, n) : n \in 0..(MaxLen + 1)} \cup {U64(h, 1) : h \in 1..MaxHi}

GetRanges ==
    {[kind |-> "Bounded", start |-> s, end |-> e] : s \in RangeParams, e \in RangeParams}
    \cup {[kind |-> "Offset", start |-> s, end |-> s] : s \in RangeParams}
    \cup {[kind |-> "Suffix", start |-> n, end |-> n] : n \in RangeParams}

\* GetOptions.range
RangeOptions == {None} \cup {Some(r) : r \in GetRanges}

\* ------------------------------------------------------- range resolution
StartTooLarge(requested, length) ==
    [variant |-> "StartTooLarge", requested |-> requested, length |-> length]

RangeOk(s, e) == [ok |-> TRUE, start |-> s, end |-> e]
RangeErr(e) == [ok |-> FALSE, error |-> e]

\* a resolution that reads Suffix(n) as the first n bytes and rejects n >= len
ResolveRangeSuffixFromStart(range, len) ==
    CASE range.kind = "Bounded" ->
            IF Ge(range.start, len)
            THEN RangeErr(StartTooLarge(AsUsize(range.start), AsUsize(len)))
            ELSE IF Gt(range.end, len)
            THEN RangeOk(range.start, len)
            ELSE RangeOk(range.start, range.end)
      [] range.kind = "Offset" ->
            IF Ge(range.start, len)
            THEN RangeErr(StartTooLarge(AsUsize(range.start), AsUsize(len)))
            ELSE RangeOk(range.start, len)
      [] range.kind = "Suffix" ->
            IF Ge(range.start, len)
            THEN RangeErr(StartTooLarge(AsUsize(range.start), AsUsize(len)))
            ELSE RangeOk(U64(0, 0), range.start)

\* the match on the requested range
ResolveRange(range, len) ==
    CASE range.kind = "Bounded" ->
            IF Ge(range.start, len)
            THEN RangeErr(StartTooLarge(AsUsize(range.start), AsUsize(len)))
            ELSE IF Gt(range.end, len)
            THEN RangeOk(range.start, len)
            ELSE RangeOk(range.start, range.end)
      [] range.kind = "Offset" ->
            IF Ge(range.start, len)
            THEN RangeErr(StartTooLarge(AsUsize(range.start), AsUsize(len)))
            ELSE RangeOk(range.start, len)
      [] range.kind = "Suffix" -> RangeOk(SaturatingSub(len, range.start), len)

\* Bytes::slice(begin..end) panics unless begin <= end <= len
SliceInBounds(bytes, begin, end) == begin <= end /\ end <= Len(bytes)

\* a slice of the right length taken from the front
SliceFromFront(bytes, begin, end) == SubSeq(bytes, 1, end - begin)
\* Bytes::slice(begin..end)
Slice(bytes, begin, end) == SubSeq(bytes, begin + 1, end)

\* From<OpfsError> for object_store::Error
GenericError(store, source) ==
    [kind |-> "Generic", store |-> store, source |-> source]

\* ObjectMeta built from a FileResponse
Meta(location, response) ==
    [location |-> location, last_modified |-> response.last_modified,
     size |-> response.size, e_tag |-> Some(response.name)]

\* get_opts from the delivered response to its return
GetOptsResult(location, options, response) ==
    LET bytes == response.bytes[1]
        len == FromUsize(Len(bytes))
        meta == Meta(location, response)
    IN  IF options = None
        THEN [status |-> "ok", meta |-> Some(meta),
              range |-> Some(RangeOk(U64(0, 0), len)), chunks |-> <<bytes>>,
              error |-> None]
        ELSE LET r == ResolveRange(options[1], len)
             IN  IF ~r.ok
                 THEN [status |-> "err", meta |-> None, range |-> None,
                       chunks |-> <<>>,
                       error |-> Some(GenericError("OpfsFileSystem",
                                         [variant |-> "Range", source |-> r.error]))]
                 ELSE IF ~SliceInBounds(bytes, AsUsize(r.start), AsUsize(r.end))
                 THEN [status |-> "panic", meta |-> None, range |-> Some(r),
                       chunks |-> <<>>, error |-> None]
                 ELSE [status |-> "ok", meta |-> Some(meta), range |-> Some(r),
                       chunks |-> <<Slice(bytes, AsUsize(r.start), AsUsize(r.end))>>,
                       error |-> None]

\* head from the delivered response to its return
HeadResult(location, response) ==
    [status |-> "ok", meta |-> Some(Meta(location, response)), range |-> None,
     chunks |-> <<>>, error |-> None]


\* ------------------------------------------------------------ the data root
\* A name is the sequence of the pieces it was put together from.
ArrowName(name) == name \o <<".arrow">>

FileEntry(name, bytes, modified) ==
    [name |-> name, kind |-> "file", bytes |-> bytes, modified |-> modified]
DirEntry(name) ==
    [name |-> name, kind |-> "directory", bytes |-> <<>>, modified |-> 0]

\* an object's bytes: each position holds a different value
Content(l) == [i \in 1..l |-> 10 + i]

\* the index of the entry called name, or 0
Find(entries, name) ==
    IF \E i \in 1..Len(entries) : entries[i].name = name
    THEN CHOOSE i \in 1..Len(entries) : entries[i].name = name
    ELSE 0

HasFile(entries, name) ==
    \E i \in 1..Len(entries) : entries[i].name = name /\ entries[i].kind = "file"
HasDir(entries, name) ==
    \E i \in 1..Len(entries) : entries[i].name = name /\ entries[i].kind = "directory"

\* the data roots a behaviour may start from, in enumeration order
InitStores ==
    {<<>>}
    \cup {<<FileEntry(<<"a">>, Content(l), 0)>> : l \in 0..MaxLen}
    \cup {<<FileEntry(<<"a">>, Content(MaxLen), 0), DirEntry(<<"d">>),
            FileEntry(<<"b">>, Content(1), 0)>>}
    \cup {<<DirEntry(<<"d">>), FileEntry(<<"b">>, Content(1), 0)>>}

Keys == {<<"k">>, <<"j">>}
Locations == {<<"a">>, ArrowName(<<"k">>)}

\* --------------------------------------------------------------- the bridge
\* how the browser settles a promise: with a value of the expected type, with
\* a rejection, or with a value of another type
Settlements == {"fulfilled", "rejected", "mismatch"}

\* get_from_promise: the value, or a panic (assert!, unwrap)
GetFromPromise(settled) ==
    IF settled = "fulfilled" THEN "value" ELSE "panic"

\* the position after an await of get_from_promise
Await(settled, next) ==
    IF GetFromPromise(settled) = "value" THEN next ELSE "panicked"

\* getDirectoryHandle("data", {create: true}) on a root holding dirs such
\* directories: one is made only where there is none
GetDirectoryHandleAlwaysCreates(dirs, settled) ==
    IF settled = "fulfilled" THEN dirs + 1 ELSE dirs

GetDirectoryHandle(dirs, settled) ==
    IF settled = "fulfilled" /\ dirs = 0 THEN 1 ELSE dirs

ResolvedMemoized(count, settled) ==
    IF GetFromPromise(settled) = "value" /\ count = 0 THEN 1 ELSE count

\* get_file_folder has returned once more when both its awaits gave a value
Resolved(count, settled) ==
    IF GetFromPromise(settled) = "value" THEN count + 1 ELSE count

\* getFileHandle(name): a handle only for an existing plain file
HandleSettlements(entries, name) ==
    IF HasFile(entries, name) THEN Settlements ELSE Settlements \ {"fulfilled"}

\* getFileHandle(name, {create: true}): a handle unless a directory has the name
CreateSettlements(entries, name) ==
    IF HasDir(entries, name) THEN Settlements \ {"fulfilled"} ELSE Settlements

\* the File of a handle: a snapshot of the entry
FileOf(entry) ==
    [name |-> entry.name, size |-> Len(entry.bytes),
     last_modified |-> entry.modified, bytes |-> entry.bytes]

FileResponse(file, bytes) ==
    [bytes |-> bytes, name |-> file.name, last_modified |-> file.last_modified,
     size |-> file.size]

\* ------------------------------------------------------------------- state
VARIABLES
    dataDir,   \* how many "data" directories the storage root holds
    store,     \* the entries of the data root, in enumeration order
    now,       \* the browser's clock
    rd,        \* the head / get_opts call: caller and spawned producer
    ing,       \* the load_csv_bytes call
    ls,        \* the list call: caller, spawned producer and channel
    un,        \* what the unsupported operations issued in a row returned
    blocked,   \* the one thread is blocked for good
    ops,       \* how many more operations may be issued
    ingested,  \* the load_csv_bytes calls that returned Ok: name and start
    resolved,  \* how often get_file_folder has resolved the data root
    tables,    \* the path the session context has registered the table under
    reg        \* the register_table calls

vars == <<dataDir, store, now, rd, ing, ls, un, blocked, ops, ingested,
          resolved, tables, reg>>

\* what the entry points on the session context leave alone
adapterVars ==
    <<dataDir, store, now, rd, ing, ls, un, blocked, ingested, resolved>>

\* the register_table calls that may be in flight together
Callers == {1, 2}

RegIdle == [pc |-> "idle", digest |-> <<>>, result |-> "none"]

RdIdle ==
    [pc |-> "idle", op |-> "none", location |-> <<>>, options |-> None,
     file |-> None, response |-> None, result |-> None, failed |-> "none",
     after |-> None]

IngIdle ==
    [pc |-> "idle", key |-> <<>>, name |-> <<>>,
     csv |-> [rows |-> 0, bad |-> "none"],
     output |-> <<>>, staged |-> <<>>, before |-> <<>>, touched |-> FALSE,
     cp |-> "none", result |-> "none", start |-> 0, failed |-> "none",
     cfg |-> None]

LsIdle ==
    [caller |-> "idle", pc |-> "idle", idx |-> 0, chan |-> <<>>,
     closed |-> FALSE, failed |-> "none", after |-> {}]

InitWith(budget) ==
    /\ store \in InitStores
    /\ dataDir \in (IF store = <<>> THEN {0, 1} ELSE {1})
    /\ now = 1
    /\ rd = RdIdle
    /\ ing = IngIdle
    /\ ls = LsIdle
    /\ un = {}
    /\ blocked = FALSE
    /\ ops = budget
    /\ ingested = {}
    /\ resolved = 0
    /\ tables = None
    /\ reg = [c \in Callers |-> RegIdle]

Init == InitWith(MaxOps)

CanIssue == ~blocked /\ ops > 0

\* The record of a call that has returned or died is kept until the next
\* operation is issued; the records of calls in flight stay.
RdKept == IF rd.pc \in {"done", "panicked"} THEN RdIdle ELSE rd
IngKept == IF ing.pc \in {"done", "panicked"} THEN IngIdle ELSE ing
LsKept == IF ls.pc \in {"done", "panicked"} THEN LsIdle ELSE ls

\* ------------------------------------------------------ head and get_opts
RdFinished == rd.pc \in {"idle", "done", "panicked"}

\* the start of the ingestion that had completed under the name, if any
IngestedBefore(name) ==
    IF \E i \in ingested : i.name = name
    THEN Some((CHOOSE i \in ingested : i.name = name).start)
    ELSE None

\* head up to rx.await: get_file_data spawns the producer
IssueHead(location) ==
    /\ CanIssue /\ RdFinished
    /\ rd' = [RdIdle EXCEPT !.pc = "root", !.op = "head",
                            !.location = location,
                            !.after = IngestedBefore(location)]
    /\ ops' = ops - 1
    /\ ing' = IngKept
    /\ un' = {}
    /\ ls' = LsKept
    /\ UNCHANGED <<dataDir, store, now, blocked, ingested, resolved,
                 tables, reg>>

\* get_opts up to rx.await.  The options are the caller's own and nothing
\* reads them before it resumes: they are drawn when it does.
IssueGet(location) ==
    /\ CanIssue /\ RdFinished
    /\ rd' = [RdIdle EXCEPT !.pc = "root", !.op = "get", !.location = location]
    /\ ops' = ops - 1
    /\ ing' = IngKept
    /\ un' = {}
    /\ ls' = LsKept
    /\ UNCHANGED <<dataDir, store, now, blocked, ingested, resolved,
                 tables, reg>>

\* get_file_folder: storage.get_directory() settles
RdRoot(settled) ==
    /\ ~blocked /\ rd.pc = "root"
    /\ rd' = [rd EXCEPT !.pc = Await(settled, "dir"),
                        !.failed = IF Await(settled, "dir") = "panicked"
                                   THEN "root" ELSE "none"]
    /\ UNCHANGED <<dataDir, store, now, ing, ls, un, blocked, ops,
                 ingested, resolved, tables, reg>>

\* get_file_folder: get_directory_handle("data", create) settles
RdDir(settled) ==
    /\ ~blocked /\ rd.pc = "dir"
    /\ rd' = [rd EXCEPT !.pc = Await(settled, "handle"),
                        !.failed = IF Await(settled, "handle") = "panicked"
                                   THEN "dir" ELSE "none"]
    /\ dataDir' = GetDirectoryHandle(dataDir, settled)
    /\ resolved' = Resolved(resolved, settled)
    /\ UNCHANGED <<store, now, ing, ls, un, blocked, ops, ingested,
                 tables, reg>>

\* get_file_handle(f_name) settles
RdHandle(settled) ==
    /\ ~blocked /\ rd.pc = "handle"
    /\ settled \in HandleSettlements(store, rd.location)
    /\ rd' = [rd EXCEPT !.pc = Await(settled, "file"),
                        !.failed = IF Await(settled, "file") = "panicked"
                                   THEN "handle" ELSE "none"]
    /\ UNCHANGED <<dataDir, store, now, ing, ls, un, blocked, ops,
                 ingested, resolved, tables, reg>>

HeadFlagNever(op) == FALSE

\* the head argument of get_file_data: true from head, false from get_opts
HeadFlag(op) == op = "head"

\* get_file() settles; for head the response is built and sent
RdFile(settled) ==
    /\ ~blocked /\ rd.pc = "file"
    /\ settled \in HandleSettlements(store, rd.location)
    /\ IF GetFromPromise(settled) = "panic"
       THEN rd' = [rd EXCEPT !.pc = "panicked", !.failed = "file"]
       ELSE LET file == FileOf(store[Find(store, rd.location)])
            IN  IF HeadFlag(rd.op)
                THEN rd' = [rd EXCEPT !.pc = "sent", !.file = Some(file),
                                      !.response = Some(FileResponse(file, None))]
                ELSE rd' = [rd EXCEPT !.pc = "read", !.file = Some(file)]
    /\ UNCHANGED <<dataDir, store, now, ing, ls, un, blocked, ops,
                 ingested, resolved, tables, reg>>

\* array_buffer() settles; the response is built and sent
RdRead(settled) ==
    /\ ~blocked /\ rd.pc = "read"
    /\ settled \in {"fulfilled", "rejected"}
    /\ IF settled = "rejected"
       THEN rd' = [rd EXCEPT !.pc = "panicked", !.failed = "read"]
       ELSE rd' = [rd EXCEPT !.pc = "sent",
                      !.response = Some(FileResponse(rd.file[1], Some(rd.file[1].bytes)))]
    /\ UNCHANGED <<dataDir, store, now, ing, ls, un, blocked, ops,
                 ingested, resolved, tables, reg>>

\* head resumes from rx.await and runs to its return
HeadResume ==
    /\ ~blocked /\ rd.pc = "sent" /\ rd.op = "head"
    /\ rd' = [rd EXCEPT !.pc = "done",
                        !.result = Some(HeadResult(rd.location, rd.response[1]))]
    /\ UNCHANGED <<dataDir, store, now, ing, ls, un, blocked, ops,
                 ingested, resolved, tables, reg>>

\* get_opts resumes from rx.await and runs to its return
GetResume(options) ==
    /\ ~blocked /\ rd.pc = "sent" /\ rd.op = "get"
    /\ rd' = [rd EXCEPT !.pc = "done", !.options = options,
                        !.result = Some(GetOptsResult(rd.location, options,
                                                      rd.response[1]))]
    /\ UNCHANGED <<dataDir, store, now, ing, ls, un, blocked, ops,
                 ingested, resolved, tables, reg>>

\* ------------------------------------------------------------- ingestion
\* A CSV body: its number of rows, and where the first row is that does not
\* parse: nowhere, among the rows schema inference samples, or after them.
CsvInputs ==
    {[rows |-> n, bad |-> b] : n \in 0..MaxRows, b \in {"none", "sample", "later"}}
    \ {[rows |-> 0, bad |-> b] : b \in {"sample", "later"}}

\* the longest null_regex that is compiled, in bytes
NullRegexMax == 32

\* A CsvConfig as it arrives: each field is absent or there; a text has a
\* length in bytes, and as a null_regex it compiles as a pattern or does not.
Text(n) == Some([len |-> n, compiles |-> TRUE])
BadPattern(n) == Some([len |-> n, compiles |-> FALSE])

DefaultConfig ==
    [delimiter |-> Text(1), quote |-> Text(1), comment |-> Text(1),
     escape |-> Text(1), null_regex |-> Text(0), truncated |-> Some(FALSE)]

CsvConfigs ==
    {DefaultConfig}
    \cup {[DefaultConfig EXCEPT !.delimiter = v] : v \in {Text(0), Text(2)}}
    \cup {[DefaultConfig EXCEPT !.quote = v] : v \in {None, Text(2)}}
    \cup {[DefaultConfig EXCEPT !.comment = Text(0)],
          [DefaultConfig EXCEPT !.escape = None],
          [DefaultConfig EXCEPT !.truncated = Some(TRUE)]}
    \cup {[DefaultConfig EXCEPT !.null_regex = v] :
             v \in {Text(1), BadPattern(1), Text(NullRegexMax),
                    BadPattern(NullRegexMax), BadPattern(NullRegexMax + 1)}}

\* serde_wasm_bindgen::from_value: every field of CsvConfig is required
FromValue(cfg) ==
    IF \E f \in {"delimiter", "quote", "comment", "escape", "null_regex",
                  "truncated"} : cfg[f] = None
    THEN "err" ELSE "ok"

NullRegexNeverCompiled(cfg) == "off"

\* the null pattern of the format: compiled and unwrapped for a null_regex of
\* 1 to NullRegexMax bytes, left off for any other
NullRegex(cfg) ==
    IF cfg.null_regex[1].len > 0 /\ cfg.null_regex[1].len <= NullRegexMax
    THEN IF cfg.null_regex[1].compiles THEN "set" ELSE "panic"
    ELSE "off"

\* the Format cp_csv_to_arrow builds from the configuration, or none where
\* an unwrap panics
BuildFormat(cfg) ==
    IF FromValue(cfg) = "err" \/ NullRegex(cfg) = "panic" THEN None
    ELSE Some(
         [delimiter |-> IF cfg.delimiter[1].len = 1 THEN "given" ELSE "comma",
          quote |-> IF cfg.quote[1].len = 1 THEN "given" ELSE "default",
          comment |-> IF cfg.comment[1].len = 1 THEN "given" ELSE "default",
          escape |-> IF cfg.escape[1].len = 1 THEN "given" ELSE "default",
          null_regex |-> NullRegex(cfg), truncated |-> cfg.truncated[1]])

\* csv_format.infer_schema(.., Some(100))
InferSchema(csv) == IF csv.bad = "sample" THEN "err" ELSE "ok"

\* the batches of csv_reader: all decoded, or the decode error of a row
DecodeRows(csv) == IF csv.bad = "later" THEN "err" ELSE "ok"

EncodeRowsOnly(csv) == [i \in 1..csv.rows |-> 80 + i]

\* the IPC file FileWriter leaves in output: framing, then the rows
Encode(csv) == <<80>> \o [i \in 1..csv.rows |-> 80 + i]

\* cp_csv_to_arrow up to its first await: "panic" (an unwrap), "err" (the
\* decode error returned), or "await" with the encoded file
CpCsvPrefix(csv) ==
    IF InferSchema(csv) = "err" THEN "panic"
    ELSE IF DecodeRows(csv) = "err" THEN "err"
    ELSE "await"

\* load_csv_bytes on what cp_csv_to_arrow returned
LoadCsvBytes(cp) == IF cp = "ok" THEN "ok" ELSE "panic"

\* what an ingestion is given: every configuration with a body of one row,
\* and every body with the default configuration
IngestInputs ==
    {[cfg |-> g, csv |-> [rows |-> 1, bad |-> "none"]] : g \in CsvConfigs}
    \cup {[cfg |-> DefaultConfig, csv |-> c] : c \in CsvInputs}

IngFinished == ing.pc \in {"idle", "done", "panicked"}

\* load_csv_bytes and cp_csv_to_arrow up to the first await
IssueIngest(key, cfg, csv) ==
    /\ CanIssue /\ IngFinished
    /\ LET prefix == IF BuildFormat(cfg) = None THEN "config"
                     ELSE CpCsvPrefix(csv)
           base == [IngIdle EXCEPT !.key = key, !.name = ArrowName(key),
                                   !.csv = csv, !.before = store,
                                   !.start = now]
       IN  ing' = CASE prefix = "config" ->
                        [base EXCEPT !.pc = "panicked", !.result = "panic",
                                     !.failed = "config", !.cfg = Some(cfg),
                                     !.csv = IngIdle.csv]
                    [] prefix = "panic" ->
                        [base EXCEPT !.pc = "panicked", !.result = "panic"]
                    [] prefix = "err" ->
                        [base EXCEPT !.pc = "panicked", !.cp = "err",
                                     !.result = LoadCsvBytes("err")]
                    [] prefix = "await" ->
                        [base EXCEPT !.pc = "root", !.output = Encode(csv)]
    /\ ops' = ops - 1
    /\ rd' = RdKept
    /\ un' = {}
    /\ ls' = LsKept
    /\ UNCHANGED <<dataDir, store, now, blocked, ingested, resolved,
                 tables, reg>>

IngAwait(settled, next) ==
    [ing EXCEPT !.pc = Await(settled, next),
                !.result = IF Await(settled, next) = "panicked"
                           THEN "panic" ELSE "none"]

\* get_file_folder: storage.get_directory() settles
IngRoot(settled) ==
    /\ ~blocked /\ ing.pc = "root"
    /\ ing' = IngAwait(settled, "dir")
    /\ UNCHANGED <<dataDir, store, now, rd, ls, un, blocked, ops,
                 ingested, resolved, tables, reg>>

\* get_file_folder: get_directory_handle("data", create) settles
IngDir(settled) ==
    /\ ~blocked /\ ing.pc = "dir"
    /\ ing' = IngAwait(settled, "handle")
    /\ dataDir' = GetDirectoryHandle(dataDir, settled)
    /\ resolved' = Resolved(resolved, settled)
    /\ UNCHANGED <<store, now, rd, ls, un, blocked, ops, ingested, tables, reg>>

\* get_file_handle_with_options(arrow_name, create) settles: the browser has
\* created an empty file if none had the name
IngHandle(settled) ==
    /\ ~blocked /\ ing.pc = "handle"
    /\ settled \in CreateSettlements(store, ing.name)
    /\ IF settled = "fulfilled" /\ ~HasFile(store, ing.name)
       THEN /\ store' = Append(store, FileEntry(ing.name, <<>>, now))
            /\ now' = now + 1
            /\ ing' = [IngAwait(settled, "writable") EXCEPT !.touched = TRUE]
       ELSE /\ ing' = IngAwait(settled, "writable")
            /\ UNCHANGED <<store, now>>
    /\ UNCHANGED <<dataDir, rd, ls, un, blocked, ops,
                 ingested, resolved, tables, reg>>

\* create_writable() settles
IngWritable(settled) ==
    /\ ~blocked /\ ing.pc = "writable"
    /\ ing' = IngAwait(settled, "write")
    /\ UNCHANGED <<dataDir, store, now, rd, ls, un, blocked, ops,
                 ingested, resolved, tables, reg>>

\* write_with_u8_array(&output) settles: the bytes are staged, not yet in the
\* file
IngWrite(settled) ==
    /\ ~blocked /\ ing.pc = "write"
    /\ settled \in {"fulfilled", "rejected"}
    /\ ing' = [IngAwait(settled, "close") EXCEPT
                  !.staged = IF settled = "fulfilled" THEN ing.output ELSE <<>>]
    /\ UNCHANGED <<dataDir, store, now, rd, ls, un, blocked, ops,
                 ingested, resolved, tables, reg>>

\* close() settles: the staged bytes become the file's content;
\* cp_csv_to_arrow returns Ok(schema) and load_csv_bytes Ok(())
IngClose(settled) ==
    /\ ~blocked /\ ing.pc = "close"
    /\ settled \in {"fulfilled", "rejected"}
    /\ IF settled = "rejected"
       THEN /\ ing' = [ing EXCEPT !.pc = "panicked", !.result = "panic"]
            /\ UNCHANGED <<store, now, ingested>>
       ELSE /\ store' = [store EXCEPT ![Find(store, ing.name)] =
                            FileEntry(ing.name, ing.staged, now)]
            /\ now' = now + 1
            /\ ing' = [ing EXCEPT !.pc = "done", !.cp = "ok",
                                  !.result = LoadCsvBytes("ok")]
            /\ ingested' = {i \in ingested : i.name # ing.name}
                              \cup {[key |-> ing.key, name |-> ing.name,
                                      start |-> ing.start]}
    /\ UNCHANGED <<dataDir, rd, ls, un, blocked, ops, resolved, tables, reg>>

\* -------------------------------------------------------------------- list
\* A path string is kept as the segments between its "/"; "" is <<>>.
\* "opfs://data/" with the file's name pushed onto it
PathStr(name) == << <<"opfs:">>, <<>>, <<"data">>, name >>

\* Path::parse: a leading and a trailing "/" are stripped; any other empty
\* segment is an error
PathParse(segments) ==
    LET s1 == IF segments # <<>> /\ Head(segments) = <<>>
              THEN Tail(segments) ELSE segments
        s2 == IF s1 # <<>> /\ s1[Len(s1)] = <<>>
              THEN SubSeq(s1, 1, Len(s1) - 1) ELSE s1
    IN  IF \E i \in 1..Len(s2) : s2[i] = <<>>
        THEN [ok |-> FALSE, raw |-> <<>>]
        ELSE [ok |-> TRUE, raw |-> s2]

\* location.to_string(): the segments with "/" between them; head and
\* get_opts hand it to get_file_data as the name of the file
PathToString(raw) ==
    LET upto[i \in 0..Len(raw)] ==
            IF i = 0 THEN <<>>
            ELSE IF i = 1 THEN raw[1]
            ELSE upto[i - 1] \o <<"/">> \o raw[i]
    IN  upto[Len(raw)]

\* the ObjectMeta get_files builds for a File
ListMeta(file) ==
    [location |-> PathParse(PathStr(file.name)).raw,
     last_modified |-> file.last_modified, size |-> file.size, e_tag |-> None]

\* the blocking drain of the receiver on the one thread, while the sender is
\* alive in a task that has not run: it spins for good, or the runtime
\* refuses to block and traps
DrainOutcomes == {"hang", "abort"}

LsFinished == ls.pc \in {"idle", "done", "panicked"}

\* rx.into_iter().collect(): the records, once every sender is dropped
Drain(l, outcome) ==
    IF l.closed THEN "returned"
    ELSE IF outcome = "hang" THEN "blocked" ELSE "aborted"

\* list: get_files spawns the producer, then the receiver is drained
List(outcome) ==
    /\ CanIssue /\ LsFinished
    /\ LET spawned == [LsIdle EXCEPT !.pc = "root", !.after = ingested]
       IN  /\ ls' = [spawned EXCEPT !.caller = Drain(spawned, outcome)]
           /\ blocked' = (Drain(spawned, outcome) = "blocked")
    /\ ops' = ops - 1
    /\ rd' = RdKept
    /\ ing' = IngKept
    /\ un' = {}
    /\ UNCHANGED <<dataDir, store, now, ingested, resolved, tables, reg>>

\* the producer from entry idx of the enumeration to its next await: at the
\* end the sender is dropped; an entry that is no file handle fails the assert
LsAdvance(l, idx) ==
    IF idx > Len(store)
    THEN [l EXCEPT !.pc = "done", !.idx = idx, !.closed = TRUE]
    ELSE IF store[idx].kind # "file"
    THEN [l EXCEPT !.pc = "panicked", !.idx = idx, !.failed = "type"]
    ELSE [l EXCEPT !.pc = "file", !.idx = idx]

\* get_file_folder: storage.get_directory() settles
LsRoot(settled) ==
    /\ ~blocked /\ ls.pc = "root"
    /\ ls' = [ls EXCEPT !.pc = Await(settled, "dir"),
                        !.failed = IF Await(settled, "dir") = "panicked"
                                   THEN "bridge" ELSE "none"]
    /\ UNCHANGED <<dataDir, store, now, rd, ing, un, blocked, ops,
                 ingested, resolved, tables, reg>>

\* try_iter(&import_handle.values()): an iterator where the browser's
\* enumeration is iterable synchronously, none where it is not
TryIter(iterable) == IF iterable THEN "iterator" ELSE "none"

\* get_file_folder: get_directory_handle("data", create) settles; the
\* enumeration starts
LsDir(settled, iterable) ==
    /\ ~blocked /\ ls.pc = "dir"
    /\ ls' = IF GetFromPromise(settled) = "panic"
             THEN [ls EXCEPT !.pc = "panicked", !.failed = "bridge"]
             ELSE IF TryIter(iterable) = "none"
             THEN [ls EXCEPT !.pc = "panicked", !.failed = "iter"]
             ELSE LsAdvance(ls, 1)
    /\ dataDir' = GetDirectoryHandle(dataDir, settled)
    /\ resolved' = Resolved(resolved, settled)
    /\ UNCHANGED <<store, now, rd, ing, un, blocked, ops, ingested,
                 tables, reg>>

\* get_file() of the entry settles: its record is parsed and sent, and the
\* enumeration goes on
LsFile(settled) ==
    /\ ~blocked /\ ls.pc = "file"
    /\ ls' = IF GetFromPromise(settled) = "panic"
             THEN [ls EXCEPT !.pc = "panicked", !.failed = "bridge"]
             ELSE IF ~PathParse(PathStr(store[ls.idx].name)).ok
             THEN [ls EXCEPT !.pc = "panicked", !.failed = "parse"]
             ELSE LsAdvance([ls EXCEPT !.chan =
                                Append(ls.chan, ListMeta(FileOf(store[ls.idx])))],
                            ls.idx + 1)
    /\ UNCHANGED <<dataDir, store, now, rd, ing, un, blocked, ops,
                 ingested, resolved, tables, reg>>

\* ------------------------------------------------- unsupported operations
UnsupportedOps ==
    {"put_opts", "put_multipart_opts", "delete", "list_with_delimiter", "copy",
     "copy_if_not_exists"}

NotImplemented == [kind |-> "NotImplemented", store |-> "", source |-> "none"]

\* what each of the six returns
UnsupportedError(op) ==
    IF op = "put_opts" THEN NotImplemented
    ELSE GenericError(op, "NotImplemented")

Unsupported(op) ==
    /\ CanIssue
    /\ un' = un \cup {[op |-> op, error |-> UnsupportedError(op)]}
    /\ ops' = ops - 1
    /\ rd' = RdKept
    /\ ing' = IngKept
    /\ ls' = LsKept
    /\ UNCHANGED <<dataDir, store, now, blocked, ingested, resolved,
                 tables, reg>>

\* The operations of the store and the ingestion, under one content key.
\* The entry points on the session context have a specification of their own,
\* TableSpec: they reach the store only through register_arrow's reading.
Next ==
    \/ \E l \in Locations : IssueHead(l)
    \/ \E l \in Locations : IssueGet(l)
    \/ \E s \in Settlements : RdRoot(s)
    \/ \E s \in Settlements : RdDir(s)
    \/ \E s \in Settlements : RdHandle(s)
    \/ \E s \in Settlements : RdFile(s)
    \/ \E s \in Settlements : RdRead(s)
    \/ HeadResume
    \/ \E o \in RangeOptions : GetResume(o)
    \/ \E i \in IngestInputs : IssueIngest(<<"k">>, i.cfg, i.csv)
    \/ \E s \in Settlements : IngRoot(s)
    \/ \E s \in Settlements : IngDir(s)
    \/ \E s \in Settlements : IngHandle(s)
    \/ \E s \in Settlements : IngWritable(s)
    \/ \E s \in Settlements : IngWrite(s)
    \/ \E s \in Settlements : IngClose(s)
    \/ \E o \in DrainOutcomes : List(o)
    \/ \E s \in Settlements : LsRoot(s)
    \/ \E s \in Settlements, i \in BOOLEAN : LsDir(s, i)
    \/ \E s \in Settlements : LsFile(s)
    \/ \E op \in UnsupportedOps : Unsupported(op)

Spec == Init /\ [][Next]_vars

\* Ingestions and listings alone, with room for one operation more.
StoreInit == InitWith(MaxStoreOps)

StoreNext ==
    \/ \E k \in Keys, i \in IngestInputs : IssueIngest(k, i.cfg, i.csv)
    \/ \E s \in Settlements : IngRoot(s)
    \/ \E s \in Settlements : IngDir(s)
    \/ \E s \in Settlements : IngHandle(s)
    \/ \E s \in Settlements : IngWritable(s)
    \/ \E s \in Settlements : IngWrite(s)
    \/ \E s \in Settlements : IngClose(s)
    \/ \E o \in DrainOutcomes : List(o)
    \/ \E s \in Settlements : LsRoot(s)
    \/ \E s \in Settlements, i \in BOOLEAN : LsDir(s, i)
    \/ \E s \in Settlements : LsFile(s)

StoreSpec == StoreInit /\ [][StoreNext]_vars

\* ------------------------------------------------- the session context
\* format!("opfs:///{file_digest}.arrow"): the path of the one segment
RegisterPath(digest) == <<ArrowName(digest)>>

\* how register_arrow's reading of the file through the store ends: read,
\* refused with an error, or never returned (the adapter's producer panicked)
ReadOutcomes == {"read", "error", "abort"}

\* the schema provider's register_table: refused where the name is taken
RegisterTableIn(registered, path) ==
    IF registered # None
    THEN [ok |-> FALSE, tables |-> registered]
    ELSE [ok |-> TRUE, tables |-> Some(path)]

\* register_table up to the await of register_arrow: Ok(()) at once where
\* table_exist answers true
RegisterTable(c, digest) ==
    /\ CanIssue /\ reg[c].pc \in {"idle", "done"}
    /\ reg' = [reg EXCEPT ![c] =
                  IF tables # None
                  THEN [pc |-> "done", digest |-> digest, result |-> "ok"]
                  ELSE [pc |-> "reading", digest |-> digest,
                        result |-> "none"]]
    /\ ops' = ops - 1
    /\ UNCHANGED <<adapterVars, tables>>

\* register_arrow resumes: the schema was read, the table is registered,
\* and register_table returns
RegisterArrow(c, outcome) ==
    /\ ~blocked /\ reg[c].pc = "reading"
    /\ LET done == RegisterTableIn(tables, RegisterPath(reg[c].digest))
       IN  CASE outcome = "abort" ->
                  /\ reg' = [reg EXCEPT ![c].pc = "aborted"]
                  /\ UNCHANGED tables
             [] outcome = "error" ->
                  /\ reg' = [reg EXCEPT ![c].pc = "done", ![c].result = "read"]
                  /\ UNCHANGED tables
             [] outcome = "read" ->
                  /\ reg' = [reg EXCEPT ![c].pc = "done",
                                       ![c].result = IF done.ok THEN "ok"
                                                     ELSE "exists"]
                  /\ tables' = done.tables
    /\ UNCHANGED <<adapterVars, ops>>

\* unegister_table
UnregisterTable ==
    /\ CanIssue
    /\ tables' = None
    /\ ops' = ops - 1
    /\ UNCHANGED <<adapterVars, reg>>

TableNext ==
    \/ \E c \in Callers, d \in Keys : RegisterTable(c, d)
    \/ \E c \in Callers, o \in ReadOutcomes : RegisterArrow(c, o)
    \/ UnregisterTable

\* The entry points on the session context alone.
TableInit == InitWith(MaxStoreOps)

TableSpec == TableInit /\ [][TableNext]_vars


\* ---------------------------------------------------------------- claims
\* the get_opts call has returned or panicked after its response arrived
GetDone == rd.pc = "done" /\ rd.op = "get"
Requested(kind) == rd.options # None /\ rd.options[1].kind = kind
ReqStart == rd.options[1].start
ReqEnd == rd.options[1].end
ObjBytes == rd.response[1].bytes[1]
ObjLen == FromUsize(Len(ObjBytes))
Res == rd.result[1]
MinU64(a, b) == IF Lt(a, b) THEN a ELSE b

\* C1: get_opts with Bounded(start,end), start < L, resolves to
\* [start, min(end,L)), inside [0,L), of length min(end,L) - start.
C1_BoundedResolved ==
    (GetDone /\ Requested("Bounded") /\ Lt(ReqStart, ObjLen)) =>
        /\ Res.status = "ok"
        /\ Res.range[1].start = ReqStart
        /\ Res.range[1].end = MinU64(ReqEnd, ObjLen)
        /\ ~Gt(Res.range[1].end, ObjLen)
        /\ Len(Res.chunks[1]) = MinU64(ReqEnd, ObjLen).lo - ReqStart.lo

\* C1, for start <= end only: the part of the claim the code keeps.
C1_OrderedBoundedResolved ==
    (GetDone /\ Requested("Bounded") /\ Lt(ReqStart, ObjLen)
        /\ ~Lt(ReqEnd, ReqStart)) =>
        /\ Res.status = "ok"
        /\ Res.range[1].start = ReqStart
        /\ Res.range[1].end = MinU64(ReqEnd, ObjLen)
        /\ ~Gt(Res.range[1].end, ObjLen)
        /\ Len(Res.chunks[1]) = MinU64(ReqEnd, ObjLen).lo - ReqStart.lo

\* C2: get_opts with Bounded(start,_) or OffsetToEnd(start), start >= L,
\* returns the error StartTooLarge{requested = start, length = L} and no
\* bytes; OffsetToEnd(start) with start < L resolves to [start, L).
C2_StartTooLarge ==
    /\ (GetDone /\ (Requested("Bounded") \/ Requested("Offset"))
            /\ Ge(ReqStart, ObjLen)) =>
          /\ Res.status = "err"
          /\ Res.chunks = <<>>
          /\ Res.error[1].source.variant = "Range"
          /\ Res.error[1].source.source.variant = "StartTooLarge"
          /\ FromUsize(Res.error[1].source.source.requested) = ReqStart
          /\ FromUsize(Res.error[1].source.source.length) = ObjLen
    /\ (GetDone /\ Requested("Offset") /\ Lt(ReqStart, ObjLen)) =>
          /\ Res.status = "ok"
          /\ Res.range[1] = RangeOk(ReqStart, ObjLen)

\* C2, for start below 2^32 only: the part of the claim the code keeps.
C2_StartTooLargeInWord ==
    (GetDone /\ (Requested("Bounded") \/ Requested("Offset"))
        /\ Ge(ReqStart, ObjLen) /\ ReqStart.hi = 0) =>
        /\ Res.status = "err"
        /\ Res.chunks = <<>>
        /\ Res.error[1].source.source =
              StartTooLarge(ReqStart.lo, Len(ObjBytes))

\* C3: get_opts with SuffixLength(n) never returns a range error and
\* resolves to [max(0, L-n), L); for n >= L that is [0,L).
C3_SuffixSaturates ==
    (GetDone /\ Requested("Suffix")) =>
        LET L == Len(ObjBytes)
            from == IF ReqStart.hi > 0 \/ ReqStart.lo >= L
                    THEN 0 ELSE L - ReqStart.lo
        IN  /\ Res.status = "ok"
            /\ Res.range[1] = RangeOk(U64(0, from), U64(0, L))
            /\ (Ge(ReqStart, ObjLen) => Res.range[1].start = U64(0, 0))

\* a suffix longer than a non-empty object was requested and resolved
C3_Witness ==
    /\ GetDone /\ Requested("Suffix")
    /\ Len(ObjBytes) > 0 /\ Gt(ReqStart, ObjLen)
    /\ Res.status = "ok"

\* C4: a successful get_opts returns exactly one chunk, the object's bytes at
\* [r.start, r.end) for the range r it reports; with no range requested r is
\* [0,L) and the chunk is the whole content.
C4_SingleChunkOfRange ==
    (GetDone /\ Res.status = "ok") =>
        LET r == Res.range[1]
            content == rd.file[1].bytes
        IN  /\ Len(Res.chunks) = 1
            /\ r.start.hi = 0 /\ r.end.hi = 0
            /\ Len(Res.chunks[1]) = r.end.lo - r.start.lo
            /\ \A i \in 1..Len(Res.chunks[1]) :
                  Res.chunks[1][i] = content[r.start.lo + i]
            /\ (rd.options = None =>
                  r = RangeOk(U64(0, 0), U64(0, Len(content)))
                  /\ Res.chunks[1] = content)

\* a proper inner slice was returned
C4_Witness ==
    /\ GetDone /\ Requested("Bounded") /\ Res.status = "ok"
    /\ ReqStart.lo > 0 /\ Res.range[1].end.lo > ReqStart.lo

\* C5: get_opts with Bounded(start,end), end < start < L, ends in a defined
\* outcome, a zero-length result or an error value, and never aborts.
C5_EndBeforeStartDefined ==
    (GetDone /\ Requested("Bounded") /\ Lt(ReqEnd, ReqStart)
        /\ Lt(ReqStart, ObjLen)) =>
        \/ Res.status = "err"
        \/ (Res.status = "ok" /\ Len(Res.chunks[1]) = 0)

\* C6: a bridged operation of head or get_opts that fails never aborts the
\* producer or the caller; the caller gets an error value.
C6_BridgeFailureDelivered ==
    rd.failed # "none" =>
        /\ rd.pc # "panicked"
        /\ (rd.pc = "done" => Res.status = "err")

\* C7: when list drains the receiver, the producer has pushed one record per
\* plain file, in enumeration order, and closed the channel; list returns them.
C7_ListDrainsAll ==
    (ls.caller # "idle" /\ \A i \in 1..Len(store) : store[i].kind = "file") =>
        /\ ls.caller = "returned"
        /\ ls.closed
        /\ Len(ls.chan) = Len(store)
        /\ \A i \in 1..Len(ls.chan) : ls.chan[i].size = Len(store[i].bytes)

\* C8: the six unsupported operations all return the same kind of error, the
\* not-implemented one.
C8_SameUnsupportedKind ==
    \A x \in un : \A y \in un : x.error.kind = y.error.kind

\* C8, the part the code keeps: an unsupported operation returns an error
\* that is or wraps NotImplemented, and leaves the data root as it was.
C8_UnsupportedLeavesRoot ==
    [][un' # un /\ un' # {} =>
          /\ store' = store /\ dataDir' = dataDir
          /\ \A x \in un' : \/ x.error.kind = "NotImplemented"
                            \/ x.error.source = "NotImplemented"]_vars

\* C9: a failed ingestion leaves the data root holding what it held before
\* the call.
C9_FailedIngestionLeavesRoot ==
    ing.pc = "panicked" => store = ing.before

\* C10: a row that fails to decode aborts the ingestion before any operation
\* on the data root, and the caller gets the decode error as an error value.
C10_DecodeErrorSurfaced ==
    ing.cp = "err" =>
        /\ ~ing.touched
        /\ store = ing.before
        /\ ing.result = "err"

\* C10, the part the code keeps: no operation on the data root.
C10_DecodeErrorWritesNothing ==
    ing.cp = "err" => (~ing.touched /\ store = ing.before /\ ing.pc = "panicked")

\* the head call has returned, issued after an ingestion of its object had
\* completed
HeadAfterIngest ==
    rd.pc = "done" /\ rd.op = "head" /\ rd.after # None

\* the entry of the data root called name
Entry(name) == store[Find(store, name)]

Listed(name) ==
    {n \in 1..Len(ls.chan) :
        ls.chan[n].location = PathParse(PathStr(name)).raw}

\* C12: a list issued after two ingestions with distinct keys have completed
\* returns, with a record for each of the two objects whose size is the
\* number of bytes persisted for it.
C12_ListReportsIngested ==
    (ls.caller # "idle" /\ Cardinality(ls.after) >= 2) =>
        /\ ls.caller = "returned"
        /\ \A i \in ls.after :
              \E n \in Listed(i.name) :
                  ls.chan[n].size = Len(Entry(i.name).bytes)

\* C13: with a sub-directory among the entries of the data root, the
\* listing's producer passes it without failing and, once through, has sent
\* a record for every plain file, those before it and those after it.
C13_DirectorySkipped ==
    (\E i \in 1..Len(store) : store[i].kind = "directory") =>
        /\ ls.failed # "type"
        /\ ls.pc = "done" =>
              \A i \in 1..Len(store) :
                  store[i].kind = "file" => Listed(store[i].name) # {}

\* C14: the producer of a head never asks the browser for the content and
\* delivers a response without bytes; the response delivered to a get_opts
\* always carries the bytes.
C14_HeadReadsNoContent ==
    /\ rd.pc = "read" => rd.op = "get"
    /\ rd.response # None =>
          /\ rd.op = "head" => rd.response[1].bytes = None
          /\ rd.op = "get" => rd.response[1].bytes # None

C14_Witness ==
    /\ rd.op = "head" /\ rd.pc = "done"
    /\ rd.response # None /\ rd.response[1].size > 0

\* a step of the head or get_opts call in flight: one of its promises
\* settles, or its caller resumes
RdStep ==
    \/ \E s \in Settlements : RdRoot(s) \/ RdDir(s) \/ RdHandle(s)
    \/ \E s \in Settlements : RdFile(s) \/ RdRead(s)
    \/ HeadResume
    \/ \E o \in RangeOptions : GetResume(o)

\* C15: a head or get_opts that has been issued and has not yet returned a
\* result or an error can always take a further step while the thread runs:
\* it is never left suspended with nothing that would resume it.
C15_CallerResumes ==
    (rd.pc \notin {"idle", "done"} /\ ~blocked) => ENABLED RdStep

\* the calls in flight or returned that hold a handle of the data root
PastRoot ==
    (IF rd.pc \in {"handle", "file", "read", "sent", "done"} THEN 1 ELSE 0)
    + (IF ing.pc \in {"handle", "writable", "write", "close", "done"}
       THEN 1 ELSE 0)
    + (IF ls.pc \in {"file", "done"} THEN 1 ELSE 0)

DirGranted ==
    /\ rd.pc = "dir" => ENABLED RdDir("fulfilled")
    /\ ing.pc = "dir" => ENABLED IngDir("fulfilled")
    /\ ls.pc = "dir" => ENABLED LsDir("fulfilled", TRUE)

C18_ConfigNeverFails == ing.failed # "config"

\* C19: the listing's producer gives every plain file a record, and the
\* location of every record, handed to head or get_opts, is looked up under
\* the name of a plain file of the data root whose size and modification
\* time are the record's.
C19_ListedLocationResolves ==
    /\ ls.failed \notin {"iter", "parse"}
    /\ \A n \in 1..Len(ls.chan) :
          /\ HasFile(store, PathToString(ls.chan[n].location))
          /\ FileOf(Entry(PathToString(ls.chan[n].location))).size
                = ls.chan[n].size

\* C20: no register_table call, whatever it is interleaved with, returns an
\* error because the table is registered already.
C20_RegisterAlwaysSucceeds ==
    \A c \in Callers : reg[c].result # "exists"

\* C20, the part the code keeps: a registered table stays bound to its path
\* until it is unregistered.
C20_BindingStays ==
    [][tables # None => tables' \in {tables, None}]_vars

====
